---- MODULE Spec2Model ----
(***************************************************************************)
(* Organization-user membership management: the HTTP handlers of           *)
(* pkg/api/org_users.go over the SQL store, and the users table of         *)
(* public/app/features/users/UsersTable.tsx.                               *)
(*                                                                         *)
(* Four specifications share the variables:                                *)
(*   SpecMembers  add / update-role / remove handlers over the store       *)
(*   SpecList     list / lookup / paged-search handlers                    *)
(*   SpecTable    the delete prompt of the users table                     *)
(*   SpecFetch    the role-option fetch of the users table                 *)
(***************************************************************************)
EXTENDS Integers, Sequences, FiniteSets, TLC

VARIABLES
    orgUser,          \* the org_user table: a set of rows [OrgId, UserId, Role]
    user,             \* the user table: the ids of the accounts that exist
    inflight,         \* add requests between GetUserByLogin and AddOrgUser
    last,             \* the response of the request that completed last
    listIn,           \* the inputs of the list / lookup / search request served last
    listOut,          \* its response
    users,            \* UsersTable: the users prop
    showRemoveModal,  \* UsersTable: useState(false)
    clicked,          \* UsersTable: the row whose delete button was clicked last and
                      \* whose prompt was not dismissed since; 0 when there is none
    removed,          \* UsersTable: the arguments of the onRemoveUser calls
    orgId,            \* UsersTable: the orgId prop
    roleOptions,      \* UsersTable: useState<Role[]>([])
    builtinRoles,     \* UsersTable: useState({})
    fetches,          \* UsersTable: the fetchOptions() calls started so far
    acEnabled         \* contextSrv.accessControlEnabled()

memberVars == <<orgUser, user, inflight, last>>
listVars == <<listIn, listOut>>
tableVars == <<users, showRemoveModal, clicked, removed>>
fetchVars == <<orgId, roleOptions, builtinRoles, fetches, acEnabled>>
vars == <<memberVars, listVars, tableVars, fetchVars>>

\* ------------------------------------------------------------------ bounds

NumOrgs == 2
NumUsers == 2
MaxInFlight == 1

Orgs == 1..NumOrgs
UserIds == 1..NumUsers

\* ---------------------------------------------------------------- members

ROLE_VIEWER == "Viewer"
ROLE_EDITOR == "Editor"
ROLE_ADMIN == "Admin"
ValidRoles == {ROLE_VIEWER, ROLE_EDITOR, ROLE_ADMIN}
\* what a request body may carry as role: the valid ones, none, an unknown one
RoleInputs == ValidRoles \cup {"", "Owner"}

\* a login or email of a request: that of account u, or 0 for one nobody has
LoginInputs == 0..NumUsers

IsValid(role) == role \in ValidRoles

\* a request body: the fields web.Bind binds, or one it rejects
AddBody(login, role) == [bound |-> TRUE, loginOrEmail |-> login, role |-> role]
UpdateBody(role) == [bound |-> TRUE, role |-> role]
BadAddBody == [bound |-> FALSE, loginOrEmail |-> 0, role |-> ""]
BadUpdateBody == [bound |-> FALSE, role |-> ""]
AddBodies ==
    {BadAddBody} \cup {AddBody(login, role) : login \in LoginInputs, role \in RoleInputs}
UpdateBodies == {BadUpdateBody} \cup {UpdateBody(role) : role \in RoleInputs}

NoMembers == {}
NoInflight == <<>>
NoResponse == [handler |-> "", status |-> 0, message |-> "", userId |-> 0]

\* response.Error / response.Success: a body with a message only
Error(status, message) == [status |-> status, message |-> message, userId |-> 0]
Success(message) == [status |-> 200, message |-> message, userId |-> 0]
\* response.JSON(status, util.DynMap{"message": ..., "userId": ...})
JSON(status, message, userId) ==
    [status |-> status, message |-> message, userId |-> userId]

Respond(handler, r) ==
    [handler |-> handler, status |-> r.status, message |-> r.message,
     userId |-> r.userId]

\* --- the store (pkg/services/sqlstore), one transaction per call

Row(o, u) == {row \in orgUser : row.OrgId = o /\ row.UserId = u}
IsMember(o, u) == Row(o, u) # {}
Admins(table, o) == {row \in table : row.OrgId = o /\ row.Role = ROLE_ADMIN}
HasAdmin(o) == Admins(orgUser, o) # {}
OtherOrgs(table, o, u) == {row \in table : row.UserId = u /\ row.OrgId # o}

GetUserByLogin(login) ==
    IF login \in user
    THEN [err |-> "", Id |-> login]
    ELSE [err |-> "ErrUserNotFound", Id |-> 0]

StoreResult(err, table, accounts, deleted) ==
    [err |-> err, orgUser |-> table, user |-> accounts, UserWasDeleted |-> deleted]

SQLStoreAddOrgUser(cmd) ==
    IF cmd.UserId \notin user
    THEN StoreResult("ErrUserNotFound", orgUser, user, FALSE)
    ELSE IF IsMember(cmd.OrgId, cmd.UserId)
    THEN StoreResult("ErrOrgUserAlreadyAdded", orgUser, user, FALSE)
    ELSE StoreResult("",
            orgUser \cup {[OrgId |-> cmd.OrgId, UserId |-> cmd.UserId, Role |-> cmd.Role]},
            user, FALSE)

SQLStoreUpdateOrgUser(cmd) ==
    LET updated == (orgUser \ Row(cmd.OrgId, cmd.UserId))
                     \cup {[OrgId |-> cmd.OrgId, UserId |-> cmd.UserId, Role |-> cmd.Role]}
    IN  IF ~IsMember(cmd.OrgId, cmd.UserId)
        THEN StoreResult("ErrOrgUserNotFound", orgUser, user, FALSE)
        ELSE IF Admins(updated, cmd.OrgId) = {}
        THEN StoreResult("ErrLastOrgAdmin", orgUser, user, FALSE)
        ELSE StoreResult("", updated, user, FALSE)

SQLStoreRemoveOrgUser(cmd) ==
    LET unlinked == orgUser \ Row(cmd.OrgId, cmd.UserId)
        orphaned == {row \in unlinked : row.UserId = cmd.UserId} = {}
    IN  IF cmd.UserId \notin user
        THEN StoreResult("ErrUserNotFound", orgUser, user, FALSE)
        ELSE IF Admins(unlinked, cmd.OrgId) = {}
        THEN StoreResult("ErrLastOrgAdmin", orgUser, user, FALSE)
        ELSE IF orphaned /\ cmd.ShouldDeleteOrphanedUser
        THEN StoreResult("", unlinked, user \ {cmd.UserId}, TRUE)
        ELSE StoreResult("", unlinked, user, FALSE)

\* --- addOrgUserHelper

AddOrgUserCommand(o, body) ==
    [OrgId |-> o, LoginOrEmail |-> body.loginOrEmail, Role |-> body.role, UserId |-> 0]

\* the role check left out
addRoleUnchecked(cmd) == FALSE

addRoleRejected(cmd) == ~IsValid(cmd.Role)

\* the errors.Is(err, ErrOrgUserAlreadyAdded) branch left out
addOrgUserResponseNoConflict(res, cmd) ==
    IF res.err # ""
    THEN Error(500, "Could not add user to organization")
    ELSE JSON(200, "User added to organization", cmd.UserId)

addOrgUserResponse(res, cmd) ==
    IF res.err # ""
    THEN IF res.err = "ErrOrgUserAlreadyAdded"
         THEN JSON(409, "User is already member of this organization", cmd.UserId)
         ELSE Error(500, "Could not add user to organization")
    ELSE JSON(200, "User added to organization", cmd.UserId)

\* up to the store's answer to GetUserByLogin
addOrgUserHelper(handler, cmd) ==
    IF addRoleRejected(cmd)
    THEN /\ last' = Respond(handler, Error(400, "Invalid role specified"))
         /\ UNCHANGED <<orgUser, user, inflight>>
    ELSE LET userQuery == GetUserByLogin(cmd.LoginOrEmail)
         IN  IF userQuery.err # ""
             THEN /\ last' = Respond(handler, Error(404, "User not found"))
                  /\ UNCHANGED <<orgUser, user, inflight>>
             ELSE /\ inflight' = Append(inflight,
                        [handler |-> handler,
                         cmd |-> [cmd EXCEPT !.UserId = userQuery.Id]])
                  /\ UNCHANGED <<orgUser, user, last>>

\* POST /api/org/users
AddOrgUserToCurrentOrg(o, body) ==
    /\ Len(inflight) < MaxInFlight
    /\ IF ~body.bound
       THEN /\ last' = Respond("AddOrgUserToCurrentOrg", Error(400, "bad request data"))
            /\ UNCHANGED <<orgUser, user, inflight>>
       ELSE addOrgUserHelper("AddOrgUserToCurrentOrg", AddOrgUserCommand(o, body))
    /\ UNCHANGED <<listVars, tableVars, fetchVars>>

\* POST /api/orgs/:orgId/users
AddOrgUser(o, body) ==
    /\ Len(inflight) < MaxInFlight
    /\ IF ~body.bound
       THEN /\ last' = Respond("AddOrgUser", Error(400, "bad request data"))
            /\ UNCHANGED <<orgUser, user, inflight>>
       ELSE addOrgUserHelper("AddOrgUser", AddOrgUserCommand(o, body))
    /\ UNCHANGED <<listVars, tableVars, fetchVars>>

RemoveAt(s, i) == [j \in 1..(Len(s) - 1) |-> IF j < i THEN s[j] ELSE s[j + 1]]

\* the rest of addOrgUserHelper: the AddOrgUser call and the response
addOrgUserStore(i) ==
    /\ i \in DOMAIN inflight
    /\ LET req == inflight[i]
           res == SQLStoreAddOrgUser(req.cmd)
       IN  /\ orgUser' = res.orgUser
           /\ user' = res.user
           /\ last' = Respond(req.handler, addOrgUserResponse(res, req.cmd))
    /\ inflight' = RemoveAt(inflight, i)
    /\ UNCHANGED <<listVars, tableVars, fetchVars>>

\* --- updateOrgUserHelper

UpdateOrgUserCommand(o, u, body) == [OrgId |-> o, UserId |-> u, Role |-> body.role]

updateRoleRejected(cmd) == ~IsValid(cmd.Role)

\* the errors.Is(err, ErrLastOrgAdmin) branch left out
updateOrgUserResponseNoLastAdmin(res) ==
    IF res.err # ""
    THEN Error(500, "Failed update org user")
    ELSE Success("Organization user updated")

updateOrgUserResponse(res) ==
    IF res.err # ""
    THEN IF res.err = "ErrLastOrgAdmin"
         THEN Error(400, "Cannot change role so that there is no organization admin left")
         ELSE Error(500, "Failed update org user")
    ELSE Success("Organization user updated")

updateOrgUserHelper(handler, cmd) ==
    IF updateRoleRejected(cmd)
    THEN /\ last' = Respond(handler, Error(400, "Invalid role specified"))
         /\ UNCHANGED <<orgUser, user, inflight>>
    ELSE LET res == SQLStoreUpdateOrgUser(cmd)
         IN  /\ orgUser' = res.orgUser
             /\ user' = res.user
             /\ last' = Respond(handler, updateOrgUserResponse(res))
             /\ UNCHANGED inflight

\* PATCH /api/org/users/:userId
UpdateOrgUserForCurrentOrg(o, u, body) ==
    /\ IF ~body.bound
       THEN /\ last' = Respond("UpdateOrgUserForCurrentOrg", Error(400, "bad request data"))
            /\ UNCHANGED <<orgUser, user, inflight>>
       ELSE updateOrgUserHelper("UpdateOrgUserForCurrentOrg", UpdateOrgUserCommand(o, u, body))
    /\ UNCHANGED <<listVars, tableVars, fetchVars>>

\* PATCH /api/orgs/:orgId/users/:userId
UpdateOrgUser(o, u, body) ==
    /\ IF ~body.bound
       THEN /\ last' = Respond("UpdateOrgUser", Error(400, "bad request data"))
            /\ UNCHANGED <<orgUser, user, inflight>>
       ELSE updateOrgUserHelper("UpdateOrgUser", UpdateOrgUserCommand(o, u, body))
    /\ UNCHANGED <<listVars, tableVars, fetchVars>>

\* --- removeOrgUserHelper

RemoveOrgUserCommand(o, u, orphan) ==
    [OrgId |-> o, UserId |-> u, ShouldDeleteOrphanedUser |-> orphan]

removeOrgUserResponse(res) ==
    IF res.err # ""
    THEN IF res.err = "ErrLastOrgAdmin"
         THEN Error(400, "Cannot remove last organization admin")
         ELSE Error(500, "Failed to remove user from organization")
    ELSE IF res.UserWasDeleted
         THEN Success("User deleted")
         ELSE Success("User removed from organization")

removeOrgUserHelper(handler, cmd) ==
    LET res == SQLStoreRemoveOrgUser(cmd)
    IN  /\ orgUser' = res.orgUser
        /\ user' = res.user
        /\ last' = Respond(handler, removeOrgUserResponse(res))
        /\ UNCHANGED inflight

CurrentOrgRemoveCommand(o, u) == RemoveOrgUserCommand(o, u, TRUE)
\* ShouldDeleteOrphanedUser set on the /api/orgs/:orgId path too
OrgRemoveCommandOrphan(o, u) == RemoveOrgUserCommand(o, u, TRUE)
OrgRemoveCommand(o, u) == RemoveOrgUserCommand(o, u, FALSE)

\* DELETE /api/org/users/:userId
RemoveOrgUserForCurrentOrg(o, u) ==
    /\ removeOrgUserHelper("RemoveOrgUserForCurrentOrg", CurrentOrgRemoveCommand(o, u))
    /\ UNCHANGED <<listVars, tableVars, fetchVars>>

\* DELETE /api/orgs/:orgId/users/:userId
RemoveOrgUser(o, u) ==
    /\ removeOrgUserHelper("RemoveOrgUser", OrgRemoveCommand(o, u))
    /\ UNCHANGED <<listVars, tableVars, fetchVars>>

\* --- the states the add / update / remove handlers start from: every account
\* exists, a user holds at most one role per organization, and every
\* organization has an Admin (its creator)

TableOf(f) ==
    {[OrgId |-> o, UserId |-> u, Role |-> f[o][u]] :
        <<o, u>> \in {p \in Orgs \X UserIds : f[p[1]][p[2]] # ""}}

InitialTables ==
    {TableOf(f) : f \in {g \in [Orgs -> [UserIds -> ValidRoles \cup {""}]] :
                            \A o \in Orgs : \E u \in UserIds : g[o][u] = ROLE_ADMIN}}

IdleMembers ==
    /\ orgUser = NoMembers
    /\ user = {}
    /\ inflight = NoInflight
    /\ last = NoResponse

NoListResponse ==
    [handler |-> "", status |-> 0, message |-> "", body |-> <<>>, returned |-> <<>>,
     query |-> <<>>]

IdleList ==
    /\ listIn = <<>>
    /\ listOut = NoListResponse

IdleTable ==
    /\ users = <<>>
    /\ showRemoveModal = FALSE
    /\ clicked = 0
    /\ removed = <<>>

IdleFetch ==
    /\ orgId = 0
    /\ roleOptions = <<>>
    /\ builtinRoles = <<>>
    /\ fetches = <<>>
    /\ acEnabled = FALSE

InitMembers ==
    /\ orgUser \in InitialTables
    /\ user = UserIds
    /\ inflight = NoInflight
    /\ last = NoResponse
    /\ IdleList /\ IdleTable /\ IdleFetch

NextMembers ==
    \/ \E o \in Orgs, body \in AddBodies : AddOrgUserToCurrentOrg(o, body)
    \/ \E o \in Orgs, body \in AddBodies : AddOrgUser(o, body)
    \/ \E i \in 1..MaxInFlight : addOrgUserStore(i)
    \/ \E o \in Orgs, u \in UserIds, body \in UpdateBodies :
          UpdateOrgUserForCurrentOrg(o, u, body)
    \/ \E o \in Orgs, u \in UserIds, body \in UpdateBodies :
          UpdateOrgUser(o, u, body)
    \/ \E o \in Orgs, u \in UserIds : RemoveOrgUserForCurrentOrg(o, u)
    \/ \E o \in Orgs, u \in UserIds : RemoveOrgUser(o, u)

SpecMembers == InitMembers /\ [][NextMembers]_vars

\* ----------------------------------------------- claims on SpecMembers

AddRequest(o, login, role) ==
    \/ AddOrgUserToCurrentOrg(o, AddBody(login, role))
    \/ AddOrgUser(o, AddBody(login, role))

UpdateRequest(o, u, role) ==
    \/ UpdateOrgUserForCurrentOrg(o, u, UpdateBody(role))
    \/ UpdateOrgUser(o, u, UpdateBody(role))

RemoveRequest(o, u) ==
    \/ RemoveOrgUserForCurrentOrg(o, u)
    \/ RemoveOrgUser(o, u)

StoreUntouched ==
    /\ orgUser' = orgUser
    /\ user' = user

\* C1: an add-member or update-role request whose role is not a valid one is
\* answered 400 "Invalid role specified"; it changes neither table and leaves
\* no AddOrgUser call pending, and no invalid role ever reaches the store.
C1_InvalidRoleRejected ==
    [][/\ \A o \in Orgs, role \in RoleInputs \ ValidRoles :
            (\/ \E login \in LoginInputs : AddRequest(o, login, role)
             \/ \E u \in UserIds : UpdateRequest(o, u, role))
            => /\ last'.status = 400
               /\ last'.message = "Invalid role specified"
               /\ StoreUntouched
               /\ inflight' = inflight
       /\ \A i \in DOMAIN inflight' : inflight'[i].cmd.Role \in ValidRoles
       /\ \A row \in orgUser' : row.Role \in ValidRoles]_vars

C1_Witness ==
    /\ last.handler \in {"AddOrgUser", "AddOrgUserToCurrentOrg",
                         "UpdateOrgUser", "UpdateOrgUserForCurrentOrg"}
    /\ last.status = 400
    /\ last.message = "Invalid role specified"

LeavesNoAdminByUpdate(o, u, role) ==
    /\ IsMember(o, u)
    /\ role \in ValidRoles \ {ROLE_ADMIN}
    /\ \A row \in Admins(orgUser, o) : row.UserId = u

LeavesNoAdminByRemove(o, u) ==
    /\ u \in user
    /\ \A row \in Admins(orgUser, o) : row.UserId = u

\* C2: an organization that has an Admin keeps one through every step; an
\* update-role or remove request that would leave it without an Admin is
\* answered 400 and changes neither table.
C2_LastAdminKept ==
    [][\A o \in Orgs :
          HasAdmin(o) =>
            /\ Admins(orgUser', o) # {}
            /\ \A u \in UserIds, role \in RoleInputs :
                  (LeavesNoAdminByUpdate(o, u, role) /\ UpdateRequest(o, u, role))
                  => /\ last'.status = 400
                     /\ last'.message =
                          "Cannot change role so that there is no organization admin left"
                     /\ StoreUntouched
            /\ \A u \in UserIds :
                  (LeavesNoAdminByRemove(o, u) /\ RemoveRequest(o, u))
                  => /\ last'.status = 400
                     /\ last'.message = "Cannot remove last organization admin"
                     /\ StoreUntouched]_vars

C2_Witness ==
    /\ last.handler \in {"UpdateOrgUser", "UpdateOrgUserForCurrentOrg"}
    /\ last.status = 400
    /\ last.message = "Cannot change role so that there is no organization admin left"
    /\ \A o \in Orgs : HasAdmin(o)

AlreadyMember(i) ==
    /\ i \in DOMAIN inflight
    /\ inflight[i].cmd.UserId \in user
    /\ IsMember(inflight[i].cmd.OrgId, inflight[i].cmd.UserId)

OneRowPerMember(table) ==
    \A o \in Orgs, u \in UserIds :
        Cardinality({row \in table : row.OrgId = o /\ row.UserId = u}) <= 1

\* C3 as stated: adding a user who is already a member is answered with
\* status 200, the message "User is already member of this organization" and
\* the userId, and inserts no second row for the pair.
C3_AlreadyMemberIs200 ==
    [][\A i \in 1..MaxInFlight :
          (AlreadyMember(i) /\ addOrgUserStore(i))
          => /\ last'.status = 200
             /\ last'.message = "User is already member of this organization"
             /\ last'.userId = inflight[i].cmd.UserId
             /\ StoreUntouched
             /\ OneRowPerMember(orgUser')]_vars

\* C3 amended: adding a user who is already a member is answered with
\* status 409, the message "User is already member of this organization" and
\* the userId, and inserts no second row for the pair.
C3_AlreadyMemberIs409 ==
    [][\A i \in 1..MaxInFlight :
          (AlreadyMember(i) /\ addOrgUserStore(i))
          => /\ last'.status = 409
             /\ last'.message = "User is already member of this organization"
             /\ last'.userId = inflight[i].cmd.UserId
             /\ StoreUntouched
             /\ OneRowPerMember(orgUser')]_vars

C3_Witness ==
    /\ last.handler \in {"AddOrgUser", "AddOrgUserToCurrentOrg"}
    /\ last.message = "User is already member of this organization"
    /\ last.userId \in UserIds
    /\ \E o \in Orgs : IsMember(o, last.userId)

\* C6: a remove request deletes the account only on the path that sets
\* ShouldDeleteOrphanedUser and only when the user has no membership in
\* another organization; a user with another membership keeps the account and
\* that membership. A successful response says "User deleted" exactly when the
\* account was deleted and "User removed from organization" otherwise.
C6_OrphanCleanup ==
    [][\A o \in Orgs, u \in UserIds :
          LET deleted == u \in user /\ u \notin user'
          IN  /\ RemoveOrgUser(o, u) => (user' = user /\ last'.message # "User deleted")
              /\ RemoveRequest(o, u) =>
                    /\ user' \in {user, user \ {u}}
                    /\ deleted => /\ RemoveOrgUserForCurrentOrg(o, u)
                                  /\ OtherOrgs(orgUser, o, u) = {}
                                  /\ {row \in orgUser' : row.UserId = u} = {}
                    /\ OtherOrgs(orgUser, o, u) # {} =>
                          /\ ~deleted
                          /\ OtherOrgs(orgUser', o, u) = OtherOrgs(orgUser, o, u)
                    /\ (last'.message = "User deleted") <=> deleted
                    /\ (last'.status = 200 /\ ~deleted) =>
                          /\ last'.message = "User removed from organization"
                          /\ Row(o, u) \cap orgUser' = {}]_vars

C6_Witness ==
    /\ last.handler = "RemoveOrgUserForCurrentOrg"
    /\ last.status = 200
    /\ last.message = "User deleted"
    /\ user # UserIds

\* ------------------------------------------------------------------- list

MaxRows == 2
MaxParam == 2
DefaultPerPage == 1000

ListUserIds == {1, 2, 3}
LoginOf(id) == CASE id = 1 -> "alice" [] id = 2 -> "bob" [] OTHER -> ""
NoMetadata == {}
NilMap == <<>>

\* a row of models.OrgUserDTO as the store fills it
OrgUserDTO(id) ==
    [UserId |-> id, Login |-> LoginOf(id), Email |-> id, AvatarUrl |-> "",
     AccessControl |-> NoMetadata]

RECURSIVE SeqsOver(_, _)
SeqsOver(S, n) ==
    IF n = 0 THEN {<<>>}
    ELSE LET shorter == SeqsOver(S, n - 1)
         IN  shorter \cup {Append(s, x) : s \in shorter,
                                          x \in S}

Range(s) == {s[i] : i \in DOMAIN s}

\* what GetOrgUsers / SearchOrgUsers may find: rows of distinct users
StoreRows ==
    {s \in SeqsOver({OrgUserDTO(id) : id \in ListUserIds}, MaxRows) :
        Cardinality(Range(s)) = Len(s)}

SignedInUsers == [Login : {"alice", "bob"}, IsGrafanaAdmin : BOOLEAN]
Cfgs == [HiddenUsers : SUBSET {"alice", "bob"}]

\* hs.AccessControl, ?accesscontrol=, and what GetUserPermissions answers: an
\* error, or the users the requester holds a permission on
AccessControls == {"nil", "disabled", "enabled"}
Permissions ==
    {[err |-> TRUE, ids |-> {}]} \cup [err : {FALSE}, ids : SUBSET ListUserIds]

\* a query parameter: a number, or absent or not a number
QueryParams ==
    {[num |-> FALSE, val |-> 0]} \cup [num : {TRUE}, val : -1..MaxParam]

ListContexts ==
    [rows : StoreRows, storeErr : BOOLEAN, signedInUser : SignedInUsers, cfg : Cfgs,
     ac : AccessControls, acQuery : BOOLEAN, perms : Permissions,
     perpage : {[num |-> FALSE, val |-> 0]}, page : {[num |-> FALSE, val |-> 0]},
     kind : {"list"}]

SearchContexts ==
    [rows : StoreRows, storeErr : BOOLEAN, signedInUser : SignedInUsers, cfg : Cfgs,
     ac : {"nil"}, acQuery : {FALSE}, perms : {[err |-> FALSE, ids |-> {}]},
     perpage : QueryParams, page : QueryParams, kind : {"search"}]

\* c.QueryInt: strconv.Atoi with the error dropped
QueryInt(param) == IF param.num THEN param.val ELSE 0

Sprint(id) == ToString(id)

IsHiddenUser(login, signedInUser, cfg) ==
    /\ login # ""
    /\ ~signedInUser.IsGrafanaAdmin
    /\ login # signedInUser.Login
    /\ login \in cfg.HiddenUsers

GetGravatarUrl(email) == <<"avatar", email>>

\* the hidden check left out
skipUserNever(u, signedInUser, cfg) == FALSE

skipUser(u, signedInUser, cfg) == IsHiddenUser(u.Login, signedInUser, cfg)

\* the loop over query.Result
RECURSIVE filterUsers(_, _, _)
filterUsers(result, signedInUser, cfg) ==
    IF result = <<>> THEN <<>>
    ELSE LET u == Head(result)
             rest == filterUsers(Tail(result), signedInUser, cfg)
         IN  IF skipUser(u, signedInUser, cfg)
             THEN rest
             ELSE <<[u EXCEPT !.AvatarUrl = GetGravatarUrl(u.Email)]>> \o rest

userIDsOf(filteredUsers) == {Sprint(filteredUsers[i].UserId) : i \in DOMAIN filteredUsers}

\* accesscontrol.GetResourcesMetadata(ctx, permissions, "users", resourceIDs)
GetResourcesMetadata(permissions, resourceIDs) ==
    [k \in {r \in resourceIDs : \E id \in permissions.ids : Sprint(id) = r}
        |-> {"org.users:remove"}]

Lookup(m, k) == IF k \in DOMAIN m THEN m[k] ELSE NoMetadata

getUserAccessControlMetadata(c, resourceIDs) ==
    IF c.ac = "nil" \/ c.ac = "disabled" \/ ~c.acQuery
    THEN [metadata |-> NilMap, err |-> FALSE]
    ELSE IF c.perms.err \/ c.perms.ids = {}
    THEN [metadata |-> NilMap, err |-> c.perms.err]
    ELSE [metadata |-> GetResourcesMetadata(c.perms, resourceIDs), err |-> FALSE]

\* the enrichment error handed to the caller
enrichmentErrorReturned(filteredUsers) == [users |-> <<>>, err |-> TRUE]

enrichmentErrorSwallowed(filteredUsers) == [users |-> filteredUsers, err |-> FALSE]

getOrgUsersHelper(c) ==
    IF c.storeErr
    THEN [users |-> <<>>, err |-> TRUE]
    ELSE LET filteredUsers == filterUsers(c.rows, c.signedInUser, c.cfg)
             got == getUserAccessControlMetadata(c, userIDsOf(filteredUsers))
         IN  IF got.err
             THEN enrichmentErrorSwallowed(filteredUsers)
             ELSE [users |-> [i \in DOMAIN filteredUsers |->
                                [filteredUsers[i] EXCEPT !.AccessControl =
                                    Lookup(got.metadata, Sprint(filteredUsers[i].UserId))]],
                   err |-> FALSE]

ListResponse(handler, status, message, body, returned) ==
    [handler |-> handler, status |-> status, message |-> message, body |-> body,
     returned |-> returned, query |-> <<>>]

storeReturned(c) == IF c.storeErr THEN <<>> ELSE c.rows

\* GET /api/org/users
GetOrgUsersForCurrentOrgResponse(c) ==
    LET r == getOrgUsersHelper(c)
    IN  IF r.err
        THEN ListResponse("GetOrgUsersForCurrentOrg", 500,
                          "Failed to get users for current organization", <<>>,
                          storeReturned(c))
        ELSE ListResponse("GetOrgUsersForCurrentOrg", 200, "", r.users, storeReturned(c))

UserLookupDTO(u) == [id |-> u.UserId, login |-> u.Login, avatarUrl |-> u.AvatarUrl]

\* GET /api/org/users/lookup
GetOrgUsersForCurrentOrgLookupResponse(c) ==
    LET r == getOrgUsersHelper(c)
    IN  IF r.err
        THEN ListResponse("GetOrgUsersForCurrentOrgLookup", 500,
                          "Failed to get users for current organization", <<>>,
                          storeReturned(c))
        ELSE ListResponse("GetOrgUsersForCurrentOrgLookup", 200, "",
                          [i \in DOMAIN r.users |-> UserLookupDTO(r.users[i])],
                          storeReturned(c))

\* GET /api/orgs/:orgId/users
GetOrgUsersResponse(c) ==
    LET r == getOrgUsersHelper(c)
    IN  IF r.err
        THEN ListResponse("GetOrgUsers", 500, "Failed to get users for organization",
                          <<>>, storeReturned(c))
        ELSE ListResponse("GetOrgUsers", 200, "", r.users, storeReturned(c))

\* perPage defaulted only when negative
effectivePerPageNegativeOnly(requested) ==
    IF requested < 0 THEN DefaultPerPage ELSE requested

effectivePerPage(requested) == IF requested <= 0 THEN DefaultPerPage ELSE requested
effectivePage(requested) == IF requested < 1 THEN 1 ELSE requested

Min(a, b) == IF a < b THEN a ELSE b

\* SQLStore.SearchOrgUsers: the page of the matching rows the query asks for
SQLStoreSearchOrgUsers(rows, query) ==
    [TotalCount |-> Len(rows),
     OrgUsers |-> SubSeq(rows, (query.Page - 1) * query.Limit + 1,
                         Min(Len(rows), query.Page * query.Limit)),
     Page |-> 0, PerPage |-> 0]

\* GET /api/org/users/search
SearchOrgUsersWithPagingResponse(c) ==
    LET perPage == effectivePerPage(QueryInt(c.perpage))
        page == effectivePage(QueryInt(c.page))
        query == [Limit |-> perPage, Page |-> page]
        result == SQLStoreSearchOrgUsers(c.rows, query)
        filteredUsers == filterUsers(result.OrgUsers, c.signedInUser, c.cfg)
    IN  IF c.storeErr
        THEN [handler |-> "SearchOrgUsersWithPaging", status |-> 500,
              message |-> "Failed to get users for current organization",
              body |-> <<>>, returned |-> <<>>, query |-> query]
        ELSE [handler |-> "SearchOrgUsersWithPaging", status |-> 200, message |-> "",
              body |-> [result EXCEPT !.OrgUsers = filteredUsers,
                                      !.Page = page, !.PerPage = perPage],
              returned |-> result.OrgUsers, query |-> query]

GetOrgUsersForCurrentOrg ==
    /\ listIn.kind = "list"
    /\ listOut = NoListResponse
    /\ listOut' = GetOrgUsersForCurrentOrgResponse(listIn)
    /\ UNCHANGED <<listIn, memberVars, tableVars, fetchVars>>

GetOrgUsersForCurrentOrgLookup ==
    /\ listIn.kind = "list"
    /\ listOut = NoListResponse
    /\ listOut' = GetOrgUsersForCurrentOrgLookupResponse(listIn)
    /\ UNCHANGED <<listIn, memberVars, tableVars, fetchVars>>

GetOrgUsers ==
    /\ listIn.kind = "list"
    /\ listOut = NoListResponse
    /\ listOut' = GetOrgUsersResponse(listIn)
    /\ UNCHANGED <<listIn, memberVars, tableVars, fetchVars>>

SearchOrgUsersWithPaging ==
    /\ listIn.kind = "search"
    /\ listOut = NoListResponse
    /\ listOut' = SearchOrgUsersWithPagingResponse(listIn)
    /\ UNCHANGED <<listIn, memberVars, tableVars, fetchVars>>

\* a request about to be served: its context is drawn here
InitList ==
    /\ listIn \in ListContexts \cup SearchContexts
    /\ listOut = NoListResponse
    /\ IdleMembers /\ IdleTable /\ IdleFetch

NextList ==
    \/ GetOrgUsersForCurrentOrg
    \/ GetOrgUsersForCurrentOrgLookup
    \/ GetOrgUsers
    \/ SearchOrgUsersWithPaging

SpecList == InitList /\ [][NextList]_vars

\* -------------------------------------------------- claims on SpecList

ListHandlers == {"GetOrgUsersForCurrentOrg", "GetOrgUsers"}
LookupHandlers == {"GetOrgUsersForCurrentOrgLookup"}

Hidden(u) == IsHiddenUser(u.Login, listIn.signedInUser, listIn.cfg)
Visible(u) == ~Hidden(u)

\* the users of a response body
UsersOf(response) ==
    IF response.handler = "SearchOrgUsersWithPaging"
    THEN response.body.OrgUsers
    ELSE response.body

IdOf(handler, u) == IF handler \in LookupHandlers THEN u.id ELSE u.UserId
LoginIn(handler, u) == IF handler \in LookupHandlers THEN u.login ELSE u.Login

IdsOf(handler, s) == [i \in DOMAIN s |-> IdOf(handler, s[i])]

\* C4: a successful list, lookup or search response holds no user the
\* visibility filter hides from the requester, and holds every other user the
\* store returned, in the store's order.
C4_HiddenUsersFiltered ==
    listOut.status = 200 =>
        LET got == UsersOf(listOut)
        IN  /\ \A i \in DOMAIN got :
                  ~IsHiddenUser(LoginIn(listOut.handler, got[i]),
                                listIn.signedInUser, listIn.cfg)
            /\ IdsOf(listOut.handler, got)
                  = IdsOf("", SelectSeq(listOut.returned, Visible))

C4_Witness ==
    /\ listOut.handler = "SearchOrgUsersWithPaging"
    /\ listOut.status = 200
    /\ \E i \in DOMAIN listOut.returned : Hidden(listOut.returned[i])
    /\ \E i \in DOMAIN listOut.returned : Visible(listOut.returned[i])
    /\ Len(UsersOf(listOut)) < Len(listOut.returned)

EnrichmentFailed ==
    /\ listIn.ac = "enabled"
    /\ listIn.acQuery
    /\ listIn.perms.err
    /\ ~listIn.storeErr

EnrichmentOff == [listIn EXCEPT !.acQuery = FALSE]

ResponseOf(handler, c) ==
    CASE handler = "GetOrgUsersForCurrentOrg" -> GetOrgUsersForCurrentOrgResponse(c)
      [] handler = "GetOrgUsers" -> GetOrgUsersResponse(c)
      [] handler = "GetOrgUsersForCurrentOrgLookup" ->
            GetOrgUsersForCurrentOrgLookupResponse(c)

\* C5: when GetUserPermissions fails during a list or lookup request, the
\* response is 200 with exactly the users, in the order, the same request
\* gets with enrichment off, none of them carrying access-control metadata.
C5_EnrichmentErrorSwallowed ==
    (listOut.handler \in ListHandlers \cup LookupHandlers /\ EnrichmentFailed) =>
        /\ listOut.status = 200
        /\ listOut.message = ""
        /\ listOut.body = ResponseOf(listOut.handler, EnrichmentOff).body
        /\ IdsOf(listOut.handler, listOut.body)
              = IdsOf("", SelectSeq(listIn.rows, Visible))
        /\ listOut.handler \in ListHandlers =>
              \A i \in DOMAIN listOut.body : listOut.body[i].AccessControl = NoMetadata

C5_Witness ==
    /\ listOut.handler \in ListHandlers
    /\ EnrichmentFailed
    /\ listOut.status = 200
    /\ listOut.body # <<>>

Requested(param) == IF param.num THEN param.val ELSE 0

\* C7: a paged search uses perPage 1000 when the requested perpage is <= 0
\* and page 1 when the requested page is < 1, the requested values otherwise;
\* the store is queried with these values and the response echoes them.
C7_PagingDefaults ==
    listOut.handler = "SearchOrgUsersWithPaging" =>
        LET perPage == IF Requested(listIn.perpage) <= 0
                       THEN 1000 ELSE Requested(listIn.perpage)
            page == IF Requested(listIn.page) < 1 THEN 1 ELSE Requested(listIn.page)
        IN  /\ listOut.query = [Limit |-> perPage, Page |-> page]
            /\ listOut.status = 200 =>
                  /\ listOut.body.Page = page
                  /\ listOut.body.PerPage = perPage

C7_Witness ==
    /\ listOut.handler = "SearchOrgUsersWithPaging"
    /\ listOut.status = 200
    /\ listIn.perpage = [num |-> TRUE, val |-> 0]
    /\ listIn.page = [num |-> TRUE, val |-> 0]
    /\ listOut.body.PerPage = 1000
    /\ listOut.body.Page = 1

\* ------------------------------------------------------------ users table

MaxTableRows == 2
MaxRemoveCalls == 2

TableLogins == {"", "alice", "bob"}
\* user.accessControl: absent, or present without / with org.users:remove
TableMetadata == {"absent", "denied", "granted"}

OrgUserRow(id, login, accessControl) ==
    [userId |-> id, login |-> login, accessControl |-> accessControl]

\* the users prop: row i is user i, and no two users share a login
TableLists ==
    {l \in UNION {[1..n -> TableLogins \X TableMetadata] : n \in 0..MaxTableRows} :
        \A i, j \in DOMAIN l : l[i][1] = l[j][1] => i = j}

UsersOfList(l) == [i \in DOMAIN l |-> OrgUserRow(i, l[i][1], l[i][2])]

\* contextSrv.hasPermissionInMetadata(AccessControlAction.OrgUsersRemove, user)
hasPermissionInMetadata(u) == u.accessControl # "denied"

\* Boolean(user.login)
Boolean(login) == login # ""

\* the <td> holding the Button and the ConfirmModal of row i is rendered
removeCellRendered(i) == i \in DOMAIN users /\ hasPermissionInMetadata(users[i])

\* ConfirmModal isOpen of row i
isOpen(i, show) == removeCellRendered(i) /\ (Boolean(users[i].login) = show)

\* Button onClick
ClickDelete(i) ==
    /\ removeCellRendered(i)
    /\ showRemoveModal' = Boolean(users[i].login)
    /\ clicked' = i
    /\ UNCHANGED <<users, removed, memberVars, listVars, fetchVars>>

\* ConfirmModal onConfirm
Confirm(i) ==
    /\ isOpen(i, showRemoveModal)
    /\ Len(removed) < MaxRemoveCalls
    /\ removed' = Append(removed, users[i])
    /\ UNCHANGED <<users, showRemoveModal, clicked, memberVars, listVars, fetchVars>>

\* ConfirmModal onDismiss
Dismiss(i) ==
    /\ isOpen(i, showRemoveModal)
    /\ showRemoveModal' = FALSE
    /\ clicked' = 0
    /\ UNCHANGED <<users, removed, memberVars, listVars, fetchVars>>

InitTable ==
    /\ users \in {UsersOfList(l) : l \in TableLists}
    /\ showRemoveModal = FALSE
    /\ clicked = 0
    /\ removed = <<>>
    /\ IdleMembers /\ IdleList /\ IdleFetch

NextTable ==
    \/ \E i \in 1..MaxTableRows : ClickDelete(i)
    \/ \E i \in 1..MaxTableRows : Confirm(i)
    \/ \E i \in 1..MaxTableRows : Dismiss(i)

SpecTable == InitTable /\ [][NextTable]_vars

\* ------------------------------------------------- claims on SpecTable

\* C8: the prompt of a row is open exactly when that row's delete button was
\* the one clicked and the prompt has not been dismissed since: no other
\* row's prompt is open with it, and none is open before a click (rows with
\* an empty login included).
C8_OnlyTargetPromptOpen ==
    \A i \in DOMAIN users :
        removeCellRendered(i) => (isOpen(i, showRemoveModal) <=> clicked = i)

\* C9: once the delete button of alice's row is clicked, a confirm calls
\* onRemoveUser once, with alice's record; a dismiss calls it not at all and
\* closes her prompt.
C9_ConfirmRemovesTarget ==
    [][(clicked # 0 /\ users[clicked].login = "alice") =>
          \A i \in 1..MaxTableRows :
              /\ Confirm(i) => removed' = Append(removed, users[clicked])
              /\ Dismiss(i) => /\ removed' = removed
                               /\ ~isOpen(clicked, showRemoveModal')]_vars

\* --------------------------------------------------- role-option fetch

MaxFetches == 3

NoRoleOptions == <<>>
NoBuiltinRoles == <<>>
\* what fetchRoleOptions(orgId) and fetchBuiltinRoles(orgId) resolve to
RoleOptionsFor(o) == <<"roleOptions", o>>
BuiltinRolesFor(o) == <<"builtinRoles", o>>

\* the effect of [orgId]: fetchOptions() is started, nothing is cancelled
useEffect(started, o) ==
    IF acEnabled
    THEN Append(started, [orgId |-> o, pc |-> "fetchRoleOptions"])
    ELSE started

\* the owner renders the table with another orgId
ChangeOrgId(o) ==
    /\ o # orgId
    /\ Len(fetches) < MaxFetches
    /\ orgId' = o
    /\ fetches' = useEffect(fetches, o)
    /\ UNCHANGED <<roleOptions, builtinRoles, acEnabled, memberVars, listVars, tableVars>>

\* a response applied only when its orgId is still the current one
optionsAppliedIfCurrent(i) ==
    IF fetches[i].orgId = orgId THEN RoleOptionsFor(fetches[i].orgId) ELSE roleOptions

\* setRoleOptions(options) of fetch i
optionsApplied(i) == RoleOptionsFor(fetches[i].orgId)

\* await fetchRoleOptions(orgId) resolves
RoleOptionsFetched(i) ==
    /\ i \in DOMAIN fetches
    /\ fetches[i].pc = "fetchRoleOptions"
    /\ roleOptions' = optionsApplied(i)
    /\ fetches' = [fetches EXCEPT ![i].pc = "fetchBuiltinRoles"]
    /\ UNCHANGED <<orgId, builtinRoles, acEnabled, memberVars, listVars, tableVars>>

\* await fetchBuiltinRoles(orgId) resolves
BuiltinRolesFetched(i) ==
    /\ i \in DOMAIN fetches
    /\ fetches[i].pc = "fetchBuiltinRoles"
    /\ builtinRoles' = BuiltinRolesFor(fetches[i].orgId)
    /\ fetches' = [fetches EXCEPT ![i].pc = "done"]
    /\ UNCHANGED <<orgId, roleOptions, acEnabled, memberVars, listVars, tableVars>>

\* either await rejects: catch, console.error
FetchFailed(i) ==
    /\ i \in DOMAIN fetches
    /\ fetches[i].pc \in {"fetchRoleOptions", "fetchBuiltinRoles"}
    /\ fetches' = [fetches EXCEPT ![i].pc = "failed"]
    /\ UNCHANGED <<orgId, roleOptions, builtinRoles, acEnabled, memberVars, listVars,
                   tableVars>>

\* the table mounted: the state hooks hold their initial values and the
\* effect has run once
InitFetch ==
    /\ orgId \in Orgs
    /\ acEnabled \in BOOLEAN
    /\ roleOptions = NoRoleOptions
    /\ builtinRoles = NoBuiltinRoles
    /\ fetches = useEffect(<<>>, orgId)
    /\ IdleMembers /\ IdleList /\ IdleTable

NextFetch ==
    \/ \E o \in Orgs : ChangeOrgId(o)
    \/ \E i \in 1..MaxFetches : RoleOptionsFetched(i)
    \/ \E i \in 1..MaxFetches : BuiltinRolesFetched(i)
    \/ \E i \in 1..MaxFetches : FetchFailed(i)

SpecFetch == InitFetch /\ [][NextFetch]_vars

\* ------------------------------------------------- claims on SpecFetch

\* C10: a change of orgId cancels no fetch in flight, and a fetch that
\* resolves has its role options and built-in roles applied whatever the
\* current orgId is.
C10_StaleFetchApplied ==
    [][/\ orgId' # orgId =>
            \A i \in DOMAIN fetches : i \in DOMAIN fetches' /\ fetches'[i] = fetches[i]
       /\ \A i \in DOMAIN fetches :
            /\ (fetches[i].pc = "fetchRoleOptions" /\ fetches'[i].pc = "fetchBuiltinRoles")
                  => roleOptions' = RoleOptionsFor(fetches[i].orgId)
            /\ (fetches[i].pc = "fetchBuiltinRoles" /\ fetches'[i].pc = "done")
                  => builtinRoles' = BuiltinRolesFor(fetches[i].orgId)]_vars

\* both fetches have completed and the table holds the role options or the
\* built-in roles of the organization that was superseded
C10_Witness ==
    /\ Len(fetches) >= 2
    /\ \A i \in DOMAIN fetches : fetches[i].pc = "done"
    /\ fetches[Len(fetches)].orgId = orgId
    /\ \E i \in DOMAIN fetches :
          /\ fetches[i].orgId # orgId
          /\ \/ roleOptions = RoleOptionsFor(fetches[i].orgId)
             \/ builtinRoles = BuiltinRolesFor(fetches[i].orgId)

====
